---------------------------- MODULE Spec2Model ----------------------------
(***************************************************************************)
(* The MicroShop storefront pages as state machines: Payment, Cart and     *)
(* Payments (src/web/src/pages/Payment.tsx) and OrderDetails               *)
(* (src/unnamed/part_001), one page mounted in one browser tab, with the   *)
(* browser's local storage, the REST requests in flight and the router.    *)
(*                                                                         *)
(* A JavaScript string is a sequence of one-character strings.  A          *)
(* JavaScript number is a record [k, i, f]: k is "fin", "nan", "inf" or    *)
(* "ninf"; a finite number has the value i + f/2 (f is 0 or 1), so that    *)
(* 0.5 and 2.5 exist and Math.floor has something to do.                   *)
(***************************************************************************)
EXTENDS Integers, Sequences, FiniteSets, TLC

(* ------------------------------ bounds -------------------------------- *)

\* Every string over Alphabet of at most MaxLen characters is a phone input.
MaxLen == 4
\* The longest run of digits in a structured phone input.
MaxDigits == 16
\* The most entries of the local-storage cart array.
MaxCartLen == 2
\* The "+" button of a cart row is modelled up to this quantity.
MaxQty == 3
\* The most requests of one kind in flight at once.
MaxPending == 2

(* ------------------------- JavaScript strings ------------------------- *)

DigitChars == <<"0", "1", "2", "3", "4", "5", "6", "7", "8", "9">>

\* \d of a JavaScript regular expression: an ASCII decimal digit.
IsDigit(c) == \E k \in 1..Len(DigitChars) : DigitChars[k] = c

\* White space as String.prototype.trim sees it.
IsSpace(c) == c \in {" ", "\t"}

RECURSIVE trimStart(_)
trimStart(s) ==
    IF s # <<>> /\ IsSpace(Head(s)) THEN trimStart(Tail(s)) ELSE s

RECURSIVE trimEnd(_)
trimEnd(s) ==
    IF s # <<>> /\ IsSpace(s[Len(s)])
    THEN trimEnd(SubSeq(s, 1, Len(s) - 1))
    ELSE s

\* String.prototype.trim
trim(s) == trimEnd(trimStart(s))

\* s.startsWith("+")
startsWithPlus(s) == Len(s) >= 1 /\ s[1] = "+"

\* s.slice(1)
slice1(s) == SubSeq(s, 2, Len(s))

\* s.replace(/\D/g, ""): every character that is not a digit is removed.
RECURSIVE replaceNonDigits(_)
replaceNonDigits(s) ==
    IF s = <<>> THEN <<>>
    ELSE IF IsDigit(Head(s))
         THEN <<Head(s)>> \o replaceNonDigits(Tail(s))
         ELSE replaceNonDigits(Tail(s))

(* --------------------- Payment.tsx: phone helpers --------------------- *)

MinPhoneDigits == 9
MaxPhoneDigits == 15

\* A plausible slip: the "+" test is made on the untrimmed input.
normalizePhone_untrimmed(raw) ==
    IF startsWithPlus(raw)
    THEN <<"+">> \o replaceNonDigits(slice1(raw))
    ELSE replaceNonDigits(raw)

normalizePhone(raw) ==
    LET trimmed == trim(raw)
    IN  IF startsWithPlus(trimmed)
        THEN <<"+">> \o replaceNonDigits(slice1(trimmed))
        ELSE replaceNonDigits(trimmed)

\* A plausible slip: the leading "+" is counted as a digit.
isValidPhone_countsPlus(phone) ==
    LET p == normalizePhone(phone)
    IN  Len(p) >= MinPhoneDigits /\ Len(p) <= MaxPhoneDigits

isValidPhone(phone) ==
    LET p == normalizePhone(phone)
        digits == IF startsWithPlus(p) THEN slice1(p) ELSE p
    IN  Len(digits) >= MinPhoneDigits /\ Len(digits) <= MaxPhoneDigits

(* ------------------------- JavaScript numbers ------------------------- *)

Num(i, f) == [k |-> "fin", i |-> i, f |-> f]
Whole(i) == Num(i, 0)
NaN == [k |-> "nan", i |-> 0, f |-> 0]
Infinity == [k |-> "inf", i |-> 0, f |-> 0]

\* Number.isFinite(x)
isFinite(x) == x.k = "fin"

\* x > 0
GtZero(x) ==
    \/ x.k = "inf"
    \/ x.k = "fin" /\ (x.i > 0 \/ (x.i = 0 /\ x.f = 1))

\* x >= 1
GeOne(x) == x.k = "inf" \/ (x.k = "fin" /\ x.i >= 1)

\* x <= 1
LeOne(x) ==
    \/ x.k = "ninf"
    \/ x.k = "fin" /\ (x.i < 1 \/ (x.i = 1 /\ x.f = 0))

\* A number is falsy when it is 0 or NaN.
Falsy(x) == x.k = "nan" \/ (x.k = "fin" /\ x.i = 0 /\ x.f = 0)

\* x || y
OrElse(x, y) == IF Falsy(x) THEN y ELSE x

\* Math.floor(x)
floor(x) == IF x.k = "fin" THEN Whole(x.i) ELSE x

\* Math.max(1, x)
max1(x) ==
    IF x.k = "nan" THEN NaN
    ELSE IF GeOne(x) THEN x ELSE Whole(1)

\* x + d, for an integer d
Plus(x, d) == IF x.k = "fin" THEN Num(x.i + d, x.f) ELSE x

(* ---------------------------- JSON values ----------------------------- *)

\* A JSON number; 1e999 is JNum(Infinity), which is what JSON.parse makes of it.
JNum(x) == [t |-> "num", n |-> x]
\* A JSON string, written with the number that Number() converts it to.
JStr(x) == [t |-> "str", n |-> x]
JNull == [t |-> "null", n |-> NaN]
\* A field that is not there: the property read gives undefined.
JMissing == [t |-> "missing", n |-> NaN]

\* Number(v)
Number(v) ==
    CASE v.t = "num" -> v.n
      [] v.t = "str" -> v.n
      [] v.t = "null" -> Whole(0)
      [] OTHER -> NaN

\* How JSON.stringify writes a number: NaN and the infinities become null.
stringifyNumber(x) == IF isFinite(x) THEN JNum(x) ELSE JNull

\* The value under the local-storage key "cart".
CartAbsent == [t |-> "absent", a |-> <<>>]
CartNotJSON == [t |-> "notjson", a |-> <<>>]
CartNotArray == [t |-> "notarray", a |-> <<>>]
CartArray(a) == [t |-> "array", a |-> a]

(* --------------------- Cart (Payment.tsx 311-559) --------------------- *)

readCartKeep(x) ==
    isFinite(x.product_id) /\ isFinite(x.qty) /\ GtZero(x.qty)

readCart(ls) ==
    IF ls.t # "array" THEN <<>>
    ELSE SelectSeq(
           [j \in 1..Len(ls.a) |->
              [product_id |-> Number(ls.a[j].product_id),
               qty |-> Number(ls.a[j].qty)]],
           readCartKeep)

\* JSON.stringify(items), as localStorage.setItem("cart", ...) stores it.
writeCart(its) ==
    CartArray([j \in 1..Len(its) |->
                 [product_id |-> stringifyNumber(its[j].product_id),
                  qty |-> stringifyNumber(its[j].qty)]])

\* A plausible slip: the "|| 1" fallback is left out.
setQtyClamp_noFallback(qty) == max1(floor(qty))

\* const q = Math.max(1, Math.floor(qty || 1))
setQtyClamp(qty) == max1(floor(OrElse(qty, Whole(1))))

\* const next = items.map(...) of setQty
setQtyNext(its, product_id, qty) ==
    [j \in 1..Len(its) |->
       IF its[j].product_id = product_id
       THEN [its[j] EXCEPT !.qty = setQtyClamp(qty)]
       ELSE its[j]]

\* const next = items.filter(...) of removeItem
removeItemKeep(its, product_id) ==
    LET keep(x) == x.product_id # product_id
    IN  SelectSeq(its, keep)

(* ------------------------------- state -------------------------------- *)

VARIABLES
    page,              \* the page component mounted in this tab
    mounted,           \* its mount effects have run
    route,             \* the router's location: the target of the last nav()
    navs,              \* the nav() calls of the last step, in order
    toast,             \* the toast of the last step, "" when it showed none
    lastOp,            \* the handler or continuation that ran in the last step
    lastArg,           \* its arguments: [product_id, qty, status]
    pending,           \* REST requests in flight, by kind
    ls_token,          \* localStorage "token"
    ls_cart,           \* localStorage "cart"
    ls_address,        \* localStorage "checkout_address"
    ls_phone,          \* localStorage "checkout_phone"
    storageEvent,      \* a storage event for the key "cart" is to be delivered
    cart_items,        \* Cart: items
    cart_productsById, \* Cart: the ids that productsById maps
    cart_loading,      \* Cart: loading
    cart_checkingOut,  \* Cart: checkingOut
    pay_orderId,       \* Payment: the route parameter orderId
    pay_order,         \* Payment: order
    pay_loading,       \* Payment: loading
    pay_paying,        \* Payment: paying
    pay_address,       \* Payment: address
    pay_phone,         \* Payment: phone
    pay_payload,       \* Payment: the payload of the last POST /payments/{id}
    pay_rerender,      \* Payment: the render after the mount effects is due
    pays_loading,      \* Payments: loading
    pays_payments,     \* Payments: payments
    od_orderId,        \* OrderDetails: the route parameter orderId
    od_loading,        \* OrderDetails: loading
    od_order,          \* OrderDetails: order
    ph_raw,            \* phone helpers: the input
    ph_normalized,     \* phone helpers: normalizePhone(ph_raw)
    ph_valid,          \* phone helpers: isValidPhone(ph_raw)
    ph_pc              \* phone helpers: what has been computed

browserVars == <<route, navs, toast, pending, ls_token>>
traceVars == <<lastOp, lastArg>>
draftVars == <<ls_address, ls_phone>>
cartVars == <<ls_cart, storageEvent, cart_items, cart_productsById,
              cart_loading, cart_checkingOut>>
payVars == <<pay_orderId, pay_order, pay_loading, pay_paying, pay_address,
             pay_phone, pay_payload, pay_rerender>>
paysVars == <<pays_loading, pays_payments>>
odVars == <<od_orderId, od_loading, od_order>>
phoneVars == <<ph_raw, ph_normalized, ph_valid, ph_pc>>

vars == <<page, mounted, browserVars, traceVars, draftVars, cartVars,
          payVars, paysVars, odVars, phoneVars>>

(* ----------------------------- the values ----------------------------- *)

NoToken == "<no token>"
Tokens == {NoToken, "jwt"}

\* localStorage.getItem of a key that is not set.
NoItem == <<"<null>">>

\* orderId of a route that has no such parameter.
Undefined == "<undefined>"
OrderIdParams == {Undefined, "7"}

NoOrder == [id |-> "<null>", status |-> "<null>"]
OrderStatuses == {"CREATED", "PAID", "CANCELLED"}
Orders == {[id |-> "7", status |-> s] : s \in OrderStatuses}

NoPayload == [shipping_address |-> NoItem, phone_number |-> NoItem]

\* What a request ends with: 200, or an error response with its status, or
\* 0 for an error without a response (e?.response?.status is undefined).
Statuses == {200, 401, 403, 500, 0}
IsAuthError(status) == status = 401 \/ status = 403

NoArg == [product_id |-> NaN, qty |-> NaN, status |-> 0]
StatusArg(s) == [product_id |-> NaN, qty |-> NaN, status |-> s]

Kinds == {"GET /products", "POST /orders",
          "Payment mount GET /orders/id", "Payment refresh GET /orders/id",
          "POST /payments/id", "Payment paid GET /orders/id",
          "GET /payments", "OrderDetails GET /orders/id"}

Sent(kind) == [pending EXCEPT ![kind] = @ + 1]
Received(kind) == [pending EXCEPT ![kind] = @ - 1]

PageRoute(p) ==
    CASE p = "Cart" -> "/cart"
      [] p = "Payment" -> "/payment/7"
      [] p = "Payments" -> "/payments"
      [] p = "OrderDetails" -> "/orders/7"
      [] OTHER -> "/"

\* The page is on screen: its events can fire.
Displayed(p) == page = p /\ mounted /\ route = PageRoute(p)

ProductIds == {Whole(1), Whole(2)}

\* Entries of the stored cart array: well-formed ones, and the shapes that
\* readCart's conversions and filter are there for.
CartEntries ==
    {[product_id |-> JNum(Whole(1)), qty |-> JNum(Whole(1))],
     [product_id |-> JNum(Whole(1)), qty |-> JNum(Num(2, 1))],
     [product_id |-> JNum(Whole(2)), qty |-> JNum(Num(0, 1))],
     [product_id |-> JStr(Whole(1)), qty |-> JNum(Whole(1))],
     [product_id |-> JMissing, qty |-> JNull]}

CartStorageValues ==
    {CartAbsent, CartNotJSON, CartNotArray}
    \cup {CartArray(a) : a \in UNION {[1..n -> CartEntries] : n \in 0..MaxCartLen}}

\* What another tab of the shop stores while this one is open.
OtherTabCarts ==
    {CartAbsent, CartNotJSON,
     CartArray(<<[product_id |-> JNum(Whole(2)), qty |-> JNum(Whole(2))]>>),
     CartArray(<<[product_id |-> JNum(Whole(1)), qty |-> JNum(Num(0, 1))],
                 [product_id |-> JStr(Whole(1)), qty |-> JNum(Whole(1))]>>)}

\* Number(e.target.value) of the quantity input, and NaN.
QtyInputs == {Whole(0), NaN, Whole(-3), Num(0, 1), Num(2, 1), Whole(MaxQty)}

Addresses == {<<>>, <<" ", " ">>, <<" ", "1", " ", "M", "a", "i", "n", " ">>}

PagePhones ==
    {<<>>, <<" ">>, <<"-", "-">>,
     <<"1", "2", "3", "4", "5">>,
     <<"0", "9", "0", "-", "1", "2", "3", "-", "4", "5", "6", "7">>,
     <<"+", "8", "4", " ", "9", "0", " ", "1", "2", "3", " ",
       "4", "5", "6", "7">>,
     <<" ", "+", "8", "4", "9", "0", "1", "2", "3", "4", "5", "6", "7", " ">>}

(* -------------------------- the phone inputs -------------------------- *)

Alphabet == {"0", "9", "+", "-", " "}

DigitRun(n) == [j \in 1..n |-> DigitChars[(j % 10) + 1]]

\* The digits in groups of three with sep between the groups.
RECURSIVE Grouped(_, _)
Grouped(ds, sep) ==
    IF Len(ds) <= 3 THEN ds
    ELSE SubSeq(ds, 1, 3) \o sep \o Grouped(SubSeq(ds, 4, Len(ds)), sep)

PhoneInputs ==
    UNION {[1..n -> Alphabet] : n \in 0..MaxLen}
    \cup {lead \o Grouped(DigitRun(n), sep) \o trail :
            lead \in {<<>>, <<" ">>, <<"+">>, <<" ", "+">>, <<"+", " ">>},
            n \in 0..MaxDigits,
            sep \in {<<>>, <<"-">>, <<" ">>, <<"+">>},
            trail \in {<<>>, <<" ">>}}
    \cup PagePhones

(* ------------------------------- Init --------------------------------- *)

\* Nothing is in flight, nothing has been shown, no page state is set.
Idle ==
    /\ mounted = FALSE
    /\ navs = <<>>
    /\ toast = ""
    /\ lastOp = "init"
    /\ lastArg = NoArg
    /\ pending = [k \in Kinds |-> 0]
    /\ storageEvent = FALSE
    /\ cart_items = <<>>
    /\ cart_productsById = {}
    /\ cart_loading = TRUE
    /\ cart_checkingOut = FALSE
    /\ pay_order = NoOrder
    /\ pay_loading = TRUE
    /\ pay_paying = FALSE
    /\ pay_address = <<>>
    /\ pay_phone = <<>>
    /\ pay_payload = NoPayload
    /\ pay_rerender = FALSE
    /\ pays_loading = TRUE
    /\ pays_payments = <<>>
    /\ od_loading = TRUE
    /\ od_order = NoOrder
    /\ ph_normalized = <<>>
    /\ ph_valid = FALSE

\* One of the four pages has just been constructed (useState's initial
\* values), over whatever local storage holds.
Init ==
    /\ Idle
    /\ page \in {"Cart", "Payment", "Payments", "OrderDetails"}
    /\ route = PageRoute(page)
    /\ ls_token \in Tokens
    /\ ls_cart \in (IF page = "Cart" THEN CartStorageValues ELSE {CartAbsent})
    /\ ls_address \in (IF page = "Payment" THEN Addresses \cup {NoItem}
                       ELSE {NoItem})
    /\ ls_phone \in (IF page = "Payment" THEN PagePhones \cup {NoItem}
                     ELSE {NoItem})
    /\ pay_orderId \in (IF page = "Payment" THEN OrderIdParams ELSE {"7"})
    /\ od_orderId \in (IF page = "OrderDetails" THEN OrderIdParams ELSE {"7"})
    /\ ph_raw = <<>>
    /\ ph_pc = "idle"

\* The phone helpers alone, on one input.
PhoneInit ==
    /\ Idle
    /\ page = "none"
    /\ route = "/"
    /\ ls_token = NoToken
    /\ ls_cart = CartAbsent
    /\ ls_address = NoItem
    /\ ls_phone = NoItem
    /\ pay_orderId = "7"
    /\ od_orderId = "7"
    /\ ph_raw \in PhoneInputs
    /\ ph_pc = "input"

(* --------------------------- phone helpers ---------------------------- *)

Normalize ==
    /\ ph_pc = "input"
    /\ ph_normalized' = normalizePhone(ph_raw)
    /\ ph_pc' = "normalized"
    /\ UNCHANGED <<page, mounted, browserVars, traceVars, draftVars, cartVars,
                   payVars, paysVars, odVars, ph_raw, ph_valid>>

Validate ==
    /\ ph_pc = "normalized"
    /\ ph_valid' = isValidPhone(ph_raw)
    /\ ph_pc' = "validated"
    /\ UNCHANGED <<page, mounted, browserVars, traceVars, draftVars, cartVars,
                   payVars, paysVars, odVars, ph_raw, ph_normalized>>

PhoneNext == Normalize \/ Validate

SpecPhone == PhoneInit /\ [][PhoneNext]_vars

(* ----------------------- the rest of the browser ---------------------- *)

\* Another tab, or the login page, sets or removes the token.
TokenChanges ==
    /\ page # "none" /\ mounted
    /\ ls_token' \in Tokens \ {ls_token}
    /\ lastOp' = "token changes"
    /\ lastArg' = NoArg
    /\ navs' = <<>>
    /\ toast' = ""
    /\ UNCHANGED <<page, mounted, route, pending, draftVars, cartVars,
                   payVars, paysVars, odVars, phoneVars>>

(* -------------------------------- Cart -------------------------------- *)

\* The two mount effects: setItems(readCart()) with the storage listener,
\* and the product fetch up to its await.
CartMount ==
    /\ page = "Cart" /\ ~mounted
    /\ mounted' = TRUE
    /\ cart_items' = readCart(ls_cart)
    /\ cart_loading' = TRUE
    /\ pending' = Sent("GET /products")
    /\ lastOp' = "Cart.mount"
    /\ lastArg' = NoArg
    /\ navs' = <<>>
    /\ toast' = ""
    /\ UNCHANGED <<page, route, ls_token, draftVars, ls_cart,
                   storageEvent, cart_productsById, cart_checkingOut,
                   payVars, paysVars, odVars, phoneVars>>

\* GET /products ends: the rest of run().
CartProducts ==
    /\ pending["GET /products"] > 0
    /\ pending' = Received("GET /products")
    /\ \E status \in Statuses :
         /\ lastArg' = StatusArg(status)
         /\ IF status = 200
            THEN /\ cart_productsById' \in SUBSET ProductIds
                 /\ toast' = ""
            ELSE /\ toast' = "Failed to load products"
                 /\ cart_productsById' = cart_productsById
    /\ cart_loading' = FALSE
    /\ lastOp' = "Cart.products"
    /\ navs' = <<>>
    /\ UNCHANGED <<page, mounted, route, ls_token, draftVars, ls_cart,
                   storageEvent, cart_items, cart_checkingOut,
                   payVars, paysVars, odVars, phoneVars>>

\* Another tab stores a cart; this tab is sent a storage event.
OtherTabWritesCart ==
    /\ Displayed("Cart")
    /\ ls_cart' \in OtherTabCarts \ {ls_cart}
    /\ storageEvent' = TRUE
    /\ lastOp' = "other tab writes cart"
    /\ lastArg' = NoArg
    /\ navs' = <<>>
    /\ toast' = ""
    /\ UNCHANGED <<page, mounted, route, pending, ls_token, draftVars,
                   cart_items, cart_productsById, cart_loading,
                   cart_checkingOut, payVars, paysVars, odVars, phoneVars>>

\* onStorage, for e.key === "cart"
CartOnStorage ==
    /\ Displayed("Cart")
    /\ storageEvent
    /\ storageEvent' = FALSE
    /\ cart_items' = readCart(ls_cart)
    /\ lastOp' = "Cart.onStorage"
    /\ lastArg' = NoArg
    /\ navs' = <<>>
    /\ toast' = ""
    /\ UNCHANGED <<page, mounted, route, pending, ls_token, draftVars,
                   ls_cart, cart_productsById, cart_loading,
                   cart_checkingOut, payVars, paysVars, odVars, phoneVars>>

\* The quantities the three controls of a row pass to setQty: the "-"
\* button (enabled above 1), the "+" button, and the number input.
RowQtys(x) ==
    (IF LeOne(x.qty) THEN {} ELSE {Plus(x.qty, -1)})
    \cup (IF x.qty.i < MaxQty THEN {Plus(x.qty, 1)} ELSE {})
    \cup QtyInputs

CartSetQty ==
    /\ Displayed("Cart") /\ ~cart_loading
    /\ \E j \in 1..Len(cart_items) : \E qty \in RowQtys(cart_items[j]) :
         LET product_id == cart_items[j].product_id
             next == setQtyNext(cart_items, product_id, qty)
         IN  /\ cart_items' = next
             /\ ls_cart' = writeCart(next)
             /\ lastArg' = [product_id |-> product_id, qty |-> qty,
                            status |-> 0]
    /\ lastOp' = "Cart.setQty"
    /\ navs' = <<>>
    /\ toast' = ""
    /\ UNCHANGED <<page, mounted, route, pending, ls_token, draftVars,
                   storageEvent, cart_productsById, cart_loading,
                   cart_checkingOut, payVars, paysVars, odVars, phoneVars>>

CartRemoveItem ==
    /\ Displayed("Cart") /\ ~cart_loading
    /\ \E j \in 1..Len(cart_items) :
         LET product_id == cart_items[j].product_id
             next == removeItemKeep(cart_items, product_id)
         IN  /\ cart_items' = next
             /\ ls_cart' = writeCart(next)
             /\ lastArg' = [product_id |-> product_id, qty |-> NaN,
                            status |-> 0]
    /\ toast' = "Removed from cart"
    /\ lastOp' = "Cart.removeItem"
    /\ navs' = <<>>
    /\ UNCHANGED <<page, mounted, route, pending, ls_token, draftVars,
                   storageEvent, cart_productsById, cart_loading,
                   cart_checkingOut, payVars, paysVars, odVars, phoneVars>>

\* The Clear button is disabled on an empty cart.
CartClearCart ==
    /\ Displayed("Cart") /\ ~cart_loading
    /\ cart_items # <<>>
    /\ cart_items' = <<>>
    /\ ls_cart' = CartAbsent
    /\ toast' = "Cart cleared"
    /\ lastOp' = "Cart.clearCart"
    /\ lastArg' = NoArg
    /\ navs' = <<>>
    /\ UNCHANGED <<page, mounted, route, pending, ls_token, draftVars,
                   storageEvent, cart_productsById, cart_loading,
                   cart_checkingOut, payVars, paysVars, odVars, phoneVars>>

\* A plausible slip: the catalog is not consulted.
missing_none(its, byId) == <<>>

\* enriched.filter((x) => !x.product)
missing(its, byId) ==
    LET noProduct(x) == x.product_id \notin byId
    IN  SelectSeq(its, noProduct)

\* A plausible slip: the empty cart is not turned away.
checkoutCartIsEmpty_never(its) == FALSE

\* !items.length
checkoutCartIsEmpty(its) == Len(its) = 0

\* A plausible slip: the token is not looked at.
tokenIsMissing_never(token) == FALSE

\* !token, of each handler's localStorage.getItem("token")
tokenIsMissing(token) == token = NoToken

\* disabled={checkingOut} of the Checkout button
checkoutDisabled(checkingOut) == checkingOut

\* checkout, up to its await.  The handler is taken as it is written: its
\* own first test decides on an empty cart.
CartCheckout ==
    /\ Displayed("Cart") /\ ~cart_loading
    /\ ~checkoutDisabled(cart_checkingOut)
    /\ pending["POST /orders"] < MaxPending
    /\ lastOp' = "Cart.checkout"
    /\ lastArg' = NoArg
    /\ IF checkoutCartIsEmpty(cart_items)
       THEN /\ toast' = "Cart is empty"
            /\ navs' = <<>>
            /\ UNCHANGED <<route, pending, cart_checkingOut>>
       ELSE IF tokenIsMissing(ls_token)
       THEN /\ toast' = "Please login first"
            /\ navs' = <<"/login">>
            /\ route' = "/login"
            /\ UNCHANGED <<pending, cart_checkingOut>>
       ELSE IF Len(missing(cart_items, cart_productsById)) # 0
       THEN /\ toast' = "Some items are unavailable"
            /\ navs' = <<>>
            /\ UNCHANGED <<route, pending, cart_checkingOut>>
       ELSE /\ cart_checkingOut' = TRUE
            /\ pending' = Sent("POST /orders")
            /\ navs' = <<>>
            /\ toast' = ""
            /\ UNCHANGED route
    /\ UNCHANGED <<page, mounted, ls_token, draftVars, ls_cart, storageEvent,
                   cart_items, cart_productsById, cart_loading,
                   payVars, paysVars, odVars, phoneVars>>

\* res.data?.id of the answer to POST /orders.
CreatedOrderId == "8"

\* A plausible slip: the commented-out nav("/") is the one left in.
orderRoute_home(id) == "/"

\* `/orders/${res.data?.id}`
orderRoute(id) == "/orders/" \o id

\* POST /orders ends: the rest of checkout.
CartCheckoutEnds ==
    /\ pending["POST /orders"] > 0
    /\ pending' = Received("POST /orders")
    /\ \E status \in Statuses :
         /\ lastArg' = StatusArg(status)
         /\ IF status = 200
            THEN /\ ls_cart' = CartAbsent
                 /\ cart_items' = <<>>
                 /\ toast' = "Order created"
                 /\ navs' = <<orderRoute(CreatedOrderId)>>
                 /\ route' = orderRoute(CreatedOrderId)
            ELSE /\ toast' = "Checkout failed"
                 /\ navs' = <<>>
                 /\ UNCHANGED <<ls_cart, cart_items, route>>
    /\ cart_checkingOut' = FALSE
    /\ lastOp' = "Cart.checkout ends"
    /\ UNCHANGED <<page, mounted, ls_token, draftVars, storageEvent,
                   cart_productsById, cart_loading,
                   payVars, paysVars, odVars, phoneVars>>

CartNext ==
    \/ CartMount
    \/ CartProducts
    \/ OtherTabWritesCart
    \/ CartOnStorage
    \/ CartSetQty
    \/ CartRemoveItem
    \/ CartClearCart
    \/ CartCheckout
    \/ CartCheckoutEnds

(* ------------------------------ Payment ------------------------------- *)

\* localStorage.getItem(key) || ""
getItemOrEmpty(item) == IF item = NoItem THEN <<>> ELSE item

\* A plausible slip: any order that is shown can be paid.
isPayable_anyOrder(o) == o # NoOrder

\* order?.status === "CREATED"
isPayable(o) == o.status = "CREATED"

\* The toast of validateForm's failing test; "" when every test passes.
validateFormError(addr, ph) ==
    IF trim(addr) = <<>> THEN "Please enter your shipping address"
    ELSE IF trim(ph) = <<>> THEN "Please enter your phone number"
    ELSE IF ~isValidPhone(ph) THEN "Phone number is invalid (use 9-15 digits)"
    ELSE ""

\* A plausible slip: the phone is only tested for being there.
validateForm_phoneUnchecked(addr, ph) ==
    trim(addr) # <<>> /\ trim(ph) # <<>>

validateForm(addr, ph) == validateFormError(addr, ph) = ""

\* const payload: PayPayload = {...}
payPayload(addr, ph) ==
    [shipping_address |-> trim(addr), phone_number |-> normalizePhone(ph)]

\* What loadOrder does once GET /orders/{id} has ended with status (and,
\* on 200, with order o): the order it leaves, the toast, the token, the
\* nav() calls.
loadOrderEnds(status, o) ==
    IF status = 200
    THEN [order |-> o, toast |-> "", token |-> ls_token, navs |-> <<>>]
    ELSE IF IsAuthError(status)
    THEN [order |-> pay_order,
          toast |-> "Session expired. Please login again.",
          token |-> NoToken, navs |-> <<"/login">>]
    ELSE [order |-> NoOrder, toast |-> "Failed to load order",
          token |-> ls_token, navs |-> <<>>]

\* The location after the nav() calls ns.
After(ns) == IF ns = <<>> THEN route ELSE ns[Len(ns)]

\* The mount effects, in order: the order load up to its await (and past it
\* when loadOrder returns at once), the saved drafts into the form state,
\* and the two persist effects, which see this render's address and phone.
PaymentMount ==
    /\ page = "Payment" /\ ~mounted
    /\ mounted' = TRUE
    /\ IF pay_orderId = Undefined
       THEN /\ pay_loading' = FALSE
            /\ pay_order' = NoOrder
            /\ navs' = <<>>
            /\ toast' = ""
            /\ UNCHANGED <<route, pending>>
       ELSE IF tokenIsMissing(ls_token)
       THEN /\ toast' = "Please login first"
            /\ navs' = <<"/login">>
            /\ route' = "/login"
            /\ pay_loading' = FALSE
            /\ UNCHANGED <<pay_order, pending>>
       ELSE /\ pay_loading' = TRUE
            /\ pending' = Sent("Payment mount GET /orders/id")
            /\ navs' = <<>>
            /\ toast' = ""
            /\ UNCHANGED <<route, pay_order>>
    /\ pay_address' = getItemOrEmpty(ls_address)
    /\ pay_phone' = getItemOrEmpty(ls_phone)
    /\ ls_address' = pay_address
    /\ ls_phone' = pay_phone
    /\ pay_rerender' = TRUE
    /\ lastOp' = "Payment.mount"
    /\ lastArg' = NoArg
    /\ UNCHANGED <<page, ls_token, cartVars, pay_orderId, pay_paying,
                   pay_payload, paysVars, odVars, phoneVars>>

\* The render that the mount effects' state updates ask for, and the
\* persist effects after it.
PaymentRerender ==
    /\ page = "Payment" /\ pay_rerender
    /\ pay_rerender' = FALSE
    /\ ls_address' = pay_address
    /\ ls_phone' = pay_phone
    /\ lastOp' = "Payment.rerender"
    /\ lastArg' = NoArg
    /\ navs' = <<>>
    /\ toast' = ""
    /\ UNCHANGED <<page, mounted, route, pending, ls_token, cartVars,
                   pay_orderId, pay_order, pay_loading, pay_paying,
                   pay_address, pay_phone, pay_payload,
                   paysVars, odVars, phoneVars>>

\* The mount effects called nav("/login"): the router's update and the
\* setAddress/setPhone of the draft load are rendered in one pass when the
\* router does not defer its own (the step above is the router that does),
\* the page is unmounted and the persist effects never see the restored
\* fields.
PaymentUnmountedBeforeRerender ==
    /\ page = "Payment" /\ pay_rerender
    /\ route # PageRoute("Payment")
    /\ pay_rerender' = FALSE
    /\ lastOp' = "Payment.unmount"
    /\ lastArg' = NoArg
    /\ navs' = <<>>
    /\ toast' = ""
    /\ UNCHANGED <<page, mounted, route, pending, ls_token, draftVars,
                   cartVars, pay_orderId, pay_order, pay_loading,
                   pay_paying, pay_address, pay_phone, pay_payload,
                   paysVars, odVars, phoneVars>>

\* The mount effect's GET /orders/{id} ends: the rest of loadOrder, then
\* setLoading(false).
PaymentMountLoaded ==
    /\ pending["Payment mount GET /orders/id"] > 0
    /\ pending' = Received("Payment mount GET /orders/id")
    /\ \E status \in Statuses : \E o \in Orders :
         LET r == loadOrderEnds(status, o)
         IN  /\ pay_order' = r.order
             /\ toast' = r.toast
             /\ ls_token' = r.token
             /\ navs' = r.navs
             /\ route' = After(r.navs)
             /\ lastArg' = StatusArg(status)
    /\ pay_loading' = FALSE
    /\ lastOp' = "Payment.loadOrder ends"
    /\ UNCHANGED <<page, mounted, draftVars, cartVars, pay_orderId,
                   pay_paying, pay_address, pay_phone, pay_payload,
                   pay_rerender, paysVars, odVars, phoneVars>>

\* The form with its buttons is rendered.
PaymentFormShown ==
    /\ Displayed("Payment") /\ ~pay_rerender
    /\ ~pay_loading
    /\ pay_orderId # Undefined
    /\ pay_order # NoOrder

\* The Refresh button (disabled while paying): loadOrder up to its await.
PaymentRefresh ==
    /\ PaymentFormShown /\ ~pay_paying
    /\ pending["Payment refresh GET /orders/id"] < MaxPending
    /\ IF tokenIsMissing(ls_token)
       THEN /\ toast' = "Please login first"
            /\ navs' = <<"/login">>
            /\ route' = "/login"
            /\ UNCHANGED pending
       ELSE /\ pending' = Sent("Payment refresh GET /orders/id")
            /\ navs' = <<>>
            /\ toast' = ""
            /\ UNCHANGED route
    /\ lastOp' = "Payment.loadOrder"
    /\ lastArg' = NoArg
    /\ UNCHANGED <<page, mounted, ls_token, draftVars, cartVars, payVars,
                   paysVars, odVars, phoneVars>>

PaymentRefreshed ==
    /\ pending["Payment refresh GET /orders/id"] > 0
    /\ pending' = Received("Payment refresh GET /orders/id")
    /\ \E status \in Statuses : \E o \in Orders :
         LET r == loadOrderEnds(status, o)
         IN  /\ pay_order' = r.order
             /\ toast' = r.toast
             /\ ls_token' = r.token
             /\ navs' = r.navs
             /\ route' = After(r.navs)
             /\ lastArg' = StatusArg(status)
    /\ lastOp' = "Payment.loadOrder ends"
    /\ UNCHANGED <<page, mounted, draftVars, cartVars, pay_orderId,
                   pay_loading, pay_paying, pay_address, pay_phone,
                   pay_payload, pay_rerender, paysVars, odVars, phoneVars>>

\* The address field's onChange, and the persist effect of the render.
PaymentTypeAddress ==
    /\ PaymentFormShown /\ ~pay_paying
    /\ \E v \in Addresses \ {pay_address} :
         /\ pay_address' = v
         /\ ls_address' = v
    /\ lastOp' = "Payment.setAddress"
    /\ lastArg' = NoArg
    /\ navs' = <<>>
    /\ toast' = ""
    /\ UNCHANGED <<page, mounted, route, pending, ls_token, ls_phone,
                   cartVars, pay_orderId, pay_order, pay_loading, pay_paying,
                   pay_phone, pay_payload, pay_rerender,
                   paysVars, odVars, phoneVars>>

\* The phone field's onChange, and the persist effect of the render.
PaymentTypePhone ==
    /\ PaymentFormShown /\ ~pay_paying
    /\ \E v \in PagePhones \ {pay_phone} :
         /\ pay_phone' = v
         /\ ls_phone' = v
    /\ lastOp' = "Payment.setPhone"
    /\ lastArg' = NoArg
    /\ navs' = <<>>
    /\ toast' = ""
    /\ UNCHANGED <<page, mounted, route, pending, ls_token, ls_address,
                   cartVars, pay_orderId, pay_order, pay_loading, pay_paying,
                   pay_address, pay_payload, pay_rerender,
                   paysVars, odVars, phoneVars>>

\* A plausible slip: the button is left enabled during the submission.
payNowDisabled_never(paying) == FALSE

\* disabled={paying} of the Pay Now button
payNowDisabled(paying) == paying

\* The Pay Now button (rendered when isPayable, disabled while paying):
\* handlePay up to its first await.
PaymentHandlePay ==
    /\ PaymentFormShown /\ isPayable(pay_order)
    /\ ~payNowDisabled(pay_paying)
    /\ pending["POST /payments/id"] < MaxPending
    /\ lastOp' = "Payment.handlePay"
    /\ lastArg' = NoArg
    /\ IF pay_orderId = Undefined
       THEN /\ navs' = <<>>
            /\ toast' = ""
            /\ UNCHANGED <<route, pending, pay_paying, pay_payload>>
       ELSE IF tokenIsMissing(ls_token)
       THEN /\ toast' = "Please login first"
            /\ navs' = <<"/login">>
            /\ route' = "/login"
            /\ UNCHANGED <<pending, pay_paying, pay_payload>>
       ELSE IF ~validateForm(pay_address, pay_phone)
       THEN /\ toast' = validateFormError(pay_address, pay_phone)
            /\ navs' = <<>>
            /\ UNCHANGED <<route, pending, pay_paying, pay_payload>>
       ELSE /\ pay_payload' = payPayload(pay_address, pay_phone)
            /\ pay_paying' = TRUE
            /\ pending' = Sent("POST /payments/id")
            /\ navs' = <<>>
            /\ toast' = ""
            /\ UNCHANGED route
    /\ UNCHANGED <<page, mounted, ls_token, draftVars, cartVars, pay_orderId,
                   pay_order, pay_loading, pay_address, pay_phone,
                   pay_rerender, paysVars, odVars, phoneVars>>

\* POST /payments/{orderId} ends: on success handlePay goes on into
\* loadOrder, up to its await or, without a token, through to the end.
PaymentPaid ==
    /\ pending["POST /payments/id"] > 0
    /\ \E status \in Statuses :
         /\ lastArg' = StatusArg(status)
         /\ IF status = 200
            THEN IF tokenIsMissing(ls_token)
                 THEN /\ toast' = "Please login first"
                      /\ navs' = <<"/login", "/payments">>
                      /\ route' = "/payments"
                      /\ pay_paying' = FALSE
                      /\ pending' = Received("POST /payments/id")
                      /\ UNCHANGED ls_token
                 ELSE /\ toast' = "Payment successful"
                      /\ navs' = <<>>
                      /\ pending' =
                           [Received("POST /payments/id")
                              EXCEPT !["Payment paid GET /orders/id"] = @ + 1]
                      /\ UNCHANGED <<route, pay_paying, ls_token>>
            ELSE /\ pending' = Received("POST /payments/id")
                 /\ pay_paying' = FALSE
                 /\ IF IsAuthError(status)
                    THEN /\ toast' = "Session expired. Please login again."
                         /\ ls_token' = NoToken
                         /\ navs' = <<"/login">>
                         /\ route' = "/login"
                    ELSE /\ toast' = "Payment failed"
                         /\ navs' = <<>>
                         /\ UNCHANGED <<route, ls_token>>
    /\ lastOp' = "Payment.handlePay paid"
    /\ UNCHANGED <<page, mounted, draftVars, cartVars, pay_orderId, pay_order,
                   pay_loading, pay_address, pay_phone, pay_payload,
                   pay_rerender, paysVars, odVars, phoneVars>>

\* The GET /orders/{id} after the payment ends: the rest of loadOrder, then
\* nav("/payments", { replace: true }) and the finally block.
PaymentPaidRefreshed ==
    /\ pending["Payment paid GET /orders/id"] > 0
    /\ pending' = Received("Payment paid GET /orders/id")
    /\ \E status \in Statuses : \E o \in Orders :
         LET r == loadOrderEnds(status, o)
         IN  /\ pay_order' = r.order
             /\ toast' = r.toast
             /\ ls_token' = r.token
             /\ navs' = r.navs \o <<"/payments">>
             /\ lastArg' = StatusArg(status)
    /\ route' = "/payments"
    /\ pay_paying' = FALSE
    /\ lastOp' = "Payment.handlePay ends"
    /\ UNCHANGED <<page, mounted, draftVars, cartVars, pay_orderId,
                   pay_loading, pay_address, pay_phone, pay_payload,
                   pay_rerender, paysVars, odVars, phoneVars>>

PaymentNext ==
    \/ PaymentMount
    \/ PaymentRerender
    \/ PaymentUnmountedBeforeRerender
    \/ PaymentMountLoaded
    \/ PaymentRefresh
    \/ PaymentRefreshed
    \/ PaymentTypeAddress
    \/ PaymentTypePhone
    \/ PaymentHandlePay
    \/ PaymentPaid
    \/ PaymentPaidRefreshed

(* ------------------------------ Payments ------------------------------ *)

\* load, up to its await.
PaymentsLoad ==
    /\ IF tokenIsMissing(ls_token)
       THEN /\ toast' = "Please login first"
            /\ navs' = <<"/login">>
            /\ route' = "/login"
            /\ UNCHANGED <<pending, pays_loading>>
       ELSE /\ pays_loading' = TRUE
            /\ pending' = Sent("GET /payments")
            /\ navs' = <<>>
            /\ toast' = ""
            /\ UNCHANGED route
    /\ lastOp' = "Payments.load"
    /\ lastArg' = NoArg
    /\ UNCHANGED <<page, ls_token, draftVars, cartVars, payVars,
                   pays_payments, odVars, phoneVars>>

PaymentsMount ==
    /\ page = "Payments" /\ ~mounted
    /\ mounted' = TRUE
    /\ PaymentsLoad

\* The Refresh button is disabled while loading.
PaymentsRefresh ==
    /\ Displayed("Payments") /\ ~pays_loading
    /\ UNCHANGED mounted
    /\ PaymentsLoad

\* GET /payments ends: the rest of load.
PaymentsLoaded ==
    /\ pending["GET /payments"] > 0
    /\ pending' = Received("GET /payments")
    /\ \E status \in Statuses :
         /\ lastArg' = StatusArg(status)
         /\ IF status = 200
            THEN /\ pays_payments' \in {<<>>, <<"payment 1">>}
                 /\ navs' = <<>>
                 /\ toast' = ""
                 /\ UNCHANGED <<ls_token, route>>
            ELSE IF IsAuthError(status)
            THEN /\ toast' = "Session expired. Please login again."
                 /\ ls_token' = NoToken
                 /\ navs' = <<"/login">>
                 /\ route' = "/login"
                 /\ UNCHANGED pays_payments
            ELSE /\ toast' = "Failed to load payments"
                 /\ navs' = <<>>
                 /\ UNCHANGED <<ls_token, route, pays_payments>>
    /\ pays_loading' = FALSE
    /\ lastOp' = "Payments.load ends"
    /\ UNCHANGED <<page, mounted, draftVars, cartVars, payVars, odVars,
                   phoneVars>>

PaymentsNext == PaymentsMount \/ PaymentsRefresh \/ PaymentsLoaded

(* ---------------------------- OrderDetails ---------------------------- *)

\* load, up to its await.
OrderDetailsLoad ==
    /\ IF tokenIsMissing(ls_token)
       THEN /\ toast' = "Please login first"
            /\ navs' = <<"/login">>
            /\ route' = "/login"
            /\ UNCHANGED <<pending, od_loading, od_order>>
       ELSE IF od_orderId = Undefined
       THEN /\ od_order' = NoOrder
            /\ od_loading' = FALSE
            /\ navs' = <<>>
            /\ toast' = ""
            /\ UNCHANGED <<route, pending>>
       ELSE /\ od_loading' = TRUE
            /\ pending' = Sent("OrderDetails GET /orders/id")
            /\ navs' = <<>>
            /\ toast' = ""
            /\ UNCHANGED <<route, od_order>>
    /\ lastOp' = "OrderDetails.load"
    /\ lastArg' = NoArg
    /\ UNCHANGED <<page, ls_token, draftVars, cartVars, payVars, paysVars,
                   od_orderId, phoneVars>>

OrderDetailsMount ==
    /\ page = "OrderDetails" /\ ~mounted
    /\ mounted' = TRUE
    /\ OrderDetailsLoad

\* The Refresh button is never disabled.
OrderDetailsRefresh ==
    /\ Displayed("OrderDetails")
    /\ pending["OrderDetails GET /orders/id"] < MaxPending
    /\ UNCHANGED mounted
    /\ OrderDetailsLoad

\* GET /orders/{orderId} ends: the rest of load.
OrderDetailsLoaded ==
    /\ pending["OrderDetails GET /orders/id"] > 0
    /\ pending' = Received("OrderDetails GET /orders/id")
    /\ \E status \in Statuses :
         /\ lastArg' = StatusArg(status)
         /\ IF status = 200
            THEN /\ od_order' \in Orders
                 /\ toast' = ""
            ELSE /\ toast' = "Failed to load order"
                 /\ od_order' = NoOrder
    /\ od_loading' = FALSE
    /\ navs' = <<>>
    /\ lastOp' = "OrderDetails.load ends"
    /\ UNCHANGED <<page, mounted, route, ls_token, draftVars, cartVars,
                   payVars, paysVars, od_orderId, phoneVars>>

OrderDetailsNext ==
    \/ OrderDetailsMount
    \/ OrderDetailsRefresh
    \/ OrderDetailsLoaded

\* A plausible slip: the action is offered for every order that is shown.
orderDetailsGoToPayment_anyStatus(loading, o) ==
    IF loading THEN <<>>
    ELSE IF o = NoOrder THEN <<>>
    ELSE <<"/payment/", o.id>>

\* The render's nested conditions: the target of the "Go to Payment" link,
\* <<>> when the link is not rendered.
orderDetailsGoToPayment(loading, o) ==
    IF loading THEN <<>>
    ELSE IF o = NoOrder THEN <<>>
    ELSE IF o.status = "CREATED" THEN <<"/payment/", o.id>>
    ELSE <<>>

(* ------------------------------- Spec --------------------------------- *)

Next ==
    \/ TokenChanges
    \/ CartNext
    \/ PaymentNext
    \/ PaymentsNext
    \/ OrderDetailsNext

Spec == Init /\ [][Next]_vars


(* ------------------------------ claims -------------------------------- *)

\* The first character of s that is not white space is "+".
FirstVisibleIsPlus(s) ==
    \E k \in 1..Len(s) :
        s[k] = "+" /\ \A j \in 1..(k - 1) : IsSpace(s[j])

\* C1: normalizePhone(raw) is the decimal digits of the input in their
\* order, after a single "+" exactly when the trimmed input begins with
\* "+"; "090-123-4567" gives "0901234567" and "+84 90 123 4567" gives
\* "+84901234567".
C1_NormalizePhone ==
    ph_pc \in {"normalized", "validated"} =>
        /\ ph_normalized =
             (IF FirstVisibleIsPlus(ph_raw) THEN <<"+">> ELSE <<>>)
                \o SelectSeq(ph_raw, IsDigit)
        /\ ph_raw = <<"0", "9", "0", "-", "1", "2", "3", "-",
                      "4", "5", "6", "7">>
             => ph_normalized = <<"0", "9", "0", "1", "2", "3",
                                  "4", "5", "6", "7">>
        /\ ph_raw = <<"+", "8", "4", " ", "9", "0", " ", "1", "2", "3", " ",
                      "4", "5", "6", "7">>
             => ph_normalized = <<"+", "8", "4", "9", "0", "1", "2", "3",
                                  "4", "5", "6", "7">>

\* An input whose "+" follows white space has been normalized, with
\* separators dropped.
C1_Witness ==
    /\ ph_pc = "normalized"
    /\ Len(ph_raw) > Len(ph_normalized)
    /\ IsSpace(ph_raw[1])
    /\ startsWithPlus(ph_normalized)
    /\ Len(ph_normalized) > 9

\* C2: isValidPhone accepts exactly the inputs that have between 9 and 15
\* digits left after normalization, a leading "+" not counted.
C2_IsValidPhone ==
    ph_pc = "validated" =>
        (ph_valid <=>
            /\ Len(SelectSeq(ph_normalized, IsDigit)) >= 9
            /\ Len(SelectSeq(ph_normalized, IsDigit)) <= 15)

\* A "+" and fifteen digits have been accepted.
C2_Witness ==
    /\ ph_pc = "validated"
    /\ ph_valid
    /\ startsWithPlus(ph_normalized)
    /\ Len(ph_normalized) = 16

\* x < 0
LtZero(x) == x.k = "ninf" \/ (x.k = "fin" /\ x.i < 0)

\* The quantity the claim gives setQty(product_id, qty).
C3_Quantity(qty) ==
    IF qty.k = "nan" \/ qty = Whole(0) \/ LtZero(qty)
    THEN Whole(1)
    ELSE max1(floor(qty))

\* C3: setQty(product_id, qty) stores 1 for that product when qty is 0,
\* NaN or negative, and max(1, floor(qty)) otherwise, in the in-memory cart
\* and in the local-storage cart; the other rows keep their quantities.
C3_SetQty ==
    [][lastOp' = "Cart.setQty" =>
         /\ Len(cart_items') = Len(cart_items)
         /\ \A j \in 1..Len(cart_items) :
              /\ cart_items'[j].product_id = cart_items[j].product_id
              /\ cart_items'[j].qty =
                   IF cart_items[j].product_id = lastArg'.product_id
                   THEN C3_Quantity(lastArg'.qty)
                   ELSE cart_items[j].qty
         /\ ls_cart'.t = "array"
         /\ Len(ls_cart'.a) = Len(cart_items')
         /\ \A j \in 1..Len(cart_items') :
              ls_cart'.a[j] =
                 [product_id |-> JNum(cart_items'[j].product_id),
                  qty |-> JNum(cart_items'[j].qty)]
      ]_vars

\* setQty has been called with NaN on a row and both carts hold 1 for it.
C3_Witness ==
    /\ lastOp = "Cart.setQty"
    /\ lastArg.qty = NaN
    /\ \E j \in 1..Len(cart_items) :
         /\ cart_items[j].product_id = lastArg.product_id
         /\ cart_items[j].qty = Whole(1)
         /\ ls_cart.t = "array"
         /\ ls_cart.a[j].qty = JNum(Whole(1))

\* C4: every item held in the cart has a quantity of at least 1, whatever
\* local storage held at load time.
C4_QuantityAtLeastOne ==
    \A j \in 1..Len(cart_items) : GeOne(cart_items[j].qty)

\* C5: no two items of the cart have the same product_id.
C5_KeyedByProductId ==
    \A j, k \in 1..Len(cart_items) :
        j # k => cart_items[j].product_id # cart_items[k].product_id

\* C6: checkout on an empty cart shows an error and sends nothing, with or
\* without a token; the cart, the token and the route stay as they are.
C6_EmptyCartCheckout ==
    [][(lastOp' = "Cart.checkout" /\ cart_items = <<>>) =>
         /\ toast' = "Cart is empty"
         /\ pending' = pending
         /\ navs' = <<>>
         /\ route' = route
         /\ ls_token' = ls_token
         /\ cart_items' = cart_items
         /\ ls_cart' = ls_cart
         /\ ~cart_checkingOut'
      ]_vars

\* checkout has been turned away on an empty cart with no token stored,
\* and the page is still the cart.
C6_Witness ==
    /\ lastOp = "Cart.checkout"
    /\ cart_items = <<>>
    /\ toast = "Cart is empty"
    /\ ls_token = NoToken
    /\ route = "/cart"

\* C7: the order-details page renders "Go to Payment", a link to
\* /payment/{order.id}, exactly when it is not loading and an order is
\* loaded whose status is "CREATED".
C7_GoToPayment ==
    LET link == orderDetailsGoToPayment(od_loading, od_order)
    IN  /\ link # <<>> <=>
              (~od_loading /\ od_order # NoOrder /\ od_order.status = "CREATED")
        /\ link # <<>> => link = <<"/payment/", od_order.id>>

\* A loaded CREATED order is shown with the link.
C7_Witness ==
    /\ page = "OrderDetails"
    /\ lastOp = "OrderDetails.load ends"
    /\ od_order.status = "CREATED"
    /\ orderDetailsGoToPayment(od_loading, od_order) = <<"/payment/", "7">>

\* The steps in which a REST call of the claim's list ends.
C8_Responses ==
    {"Payment.loadOrder ends", "Payment.handlePay paid",
     "Payment.handlePay ends", "Payments.load ends",
     "OrderDetails.load ends", "Cart.checkout ends"}

Called(ns, to) == \E k \in 1..Len(ns) : ns[k] = to

\* C8: a 401 or 403 response to any of the pages' REST calls removes the
\* token from local storage and redirects to /login.
C8_AuthErrorLogsOut ==
    [][(lastOp' \in C8_Responses /\ IsAuthError(lastArg'.status)) =>
         /\ ls_token' = NoToken
         /\ Called(navs', "/login")
      ]_vars

\* C9: an operation that needs authentication and starts with no token
\* stored calls nav("/login") and sends no request.  The five handlers end
\* there, on /login; the loadOrder that handlePay runs after a successful
\* payment calls nav("/login") and sends no GET.
C9_NoTokenRedirects ==
    [][ls_token = NoToken =>
         /\ ( \/ lastOp' = "Payment.mount" /\ pay_orderId # Undefined
              \/ lastOp' \in {"Payment.loadOrder", "Payment.handlePay",
                              "Payments.load", "OrderDetails.load"}
              \/ lastOp' = "Cart.checkout" /\ cart_items # <<>> )
            => /\ navs' = <<"/login">>
               /\ route' = "/login"
               /\ pending' = pending
         /\ (lastOp' = "Payment.handlePay paid" /\ lastArg'.status = 200)
            => /\ Called(navs', "/login")
               /\ pending'["Payment paid GET /orders/id"]
                    = pending["Payment paid GET /orders/id"]
      ]_vars

\* Pay Now has been clicked with no token stored and the page went to
\* /login with nothing in flight.
C9_Witness ==
    /\ lastOp = "Payment.handlePay"
    /\ ls_token = NoToken
    /\ route = "/login"
    /\ pending["POST /payments/id"] = 0

\* C10: POST /payments/{orderId} is sent only by handlePay, only when the
\* trimmed address and the trimmed phone are not empty and isValidPhone
\* accepts the phone, and carries the trimmed address and the normalized
\* phone; when validation fails nothing is sent and paying is not set.
C10_PayAfterValidation ==
    [][LET posted == pending'["POST /payments/id"] > pending["POST /payments/id"]
           valid == /\ trim(pay_address) # <<>>
                    /\ trim(pay_phone) # <<>>
                    /\ isValidPhone(pay_phone)
       IN  /\ posted =>
                /\ lastOp' = "Payment.handlePay"
                /\ valid
                /\ pay_payload' =
                     [shipping_address |-> trim(pay_address),
                      phone_number |-> normalizePhone(pay_phone)]
           /\ (lastOp' = "Payment.handlePay" /\ ~valid) =>
                /\ pending' = pending
                /\ ~pay_paying'
      ]_vars

\* A payment has been posted whose address and phone were typed with
\* white space around them.
C10_Witness ==
    /\ lastOp = "Payment.handlePay"
    /\ pending["POST /payments/id"] = 1
    /\ pay_paying
    /\ Len(pay_payload.shipping_address) < Len(pay_address)
    /\ Len(pay_payload.phone_number) < Len(pay_phone)
    /\ startsWithPlus(pay_payload.phone_number)


\* C11: a checkout whose POST /orders returns without error removes the
\* local-storage key "cart", leaves the in-memory cart empty, and navigates
\* to /orders/{id of the created order}, once, whatever the cart, the
\* location and local storage had become while the request was in flight.
C11_CheckoutClearsCart ==
    [][(lastOp' = "Cart.checkout ends" /\ lastArg'.status = 200)
         => /\ ls_cart' = CartAbsent
            /\ cart_items' = <<>>
            /\ navs' = <<"/orders/8">>
            /\ route' = "/orders/8"
            /\ readCart(ls_cart') = <<>>]_vars

\* A checkout of a cart that another tab replaced while POST /orders was in
\* flight has succeeded.
C11_Witness ==
    /\ lastOp = "Cart.checkout ends" /\ lastArg.status = 200
    /\ storageEvent
    /\ ls_cart = CartAbsent /\ cart_items = <<>>
    /\ route = "/orders/8"

\* C12: the checkout-draft fields are persisted as the user types and
\* restored on page load.  A draft address or phone that local storage
\* holds when the Payment page mounts becomes the form field; when the mount
\* effects have settled the fields are still those and local storage holds
\* them under "checkout_address" and "checkout_phone"; and after every edit
\* the two keys equal the current form fields.
C12_DraftsPersisted ==
    [][/\ lastOp' = "Payment.mount"
          => /\ ls_address # NoItem => pay_address' = ls_address
             /\ ls_phone # NoItem => pay_phone' = ls_phone
       /\ (pay_rerender /\ ~pay_rerender')
          => /\ pay_address' = pay_address /\ ls_address' = pay_address
             /\ pay_phone' = pay_phone /\ ls_phone' = pay_phone
       /\ lastOp' \in {"Payment.setAddress", "Payment.setPhone"}
          => /\ ls_address' = pay_address'
             /\ ls_phone' = pay_phone']_vars

\* The REST requests of the tab's page that are in flight.
InFlight ==
    LET RECURSIVE Sum(_)
        Sum(ks) == IF ks = {} THEN 0
                   ELSE LET k == CHOOSE x \in ks : TRUE
                        IN  pending[k] + Sum(ks \ {k})
    IN  Sum(Kinds)

\* C13: the pages are single-request-at-a-time.  On each page, under any
\* sequence of clicks (Refresh, Pay Now, Checkout) and response arrivals,
\* at most one REST request issued by the page is in flight.
C13_SingleRequestAtATime == InFlight <= 1

\* The last nav() call of a step that made any is to `to`.
LastNav(ns, to) == ns # <<>> /\ ns[Len(ns)] = to

\* C14: after a successful POST /payments/{orderId} the follow-up refresh
\* does not block the redirect.  The step of handlePay that takes the
\* answer navigates to /payments without waiting for GET /orders/{id}, and
\* whatever that refresh ends with, the last nav() of handlePay is to
\* /payments.
C14_RedirectNotBlocked ==
    [][/\ (lastOp' = "Payment.handlePay paid" /\ lastArg'.status = 200)
          => /\ LastNav(navs', "/payments")
             /\ route' = "/payments"
       /\ lastOp' = "Payment.handlePay ends"
          => (navs' = <<>> \/ LastNav(navs', "/payments"))]_vars

\* C15: on the Payment page a POST /payments/{orderId} is issued only by a
\* click on Pay Now made while the order the page last loaded has status
\* exactly "CREATED"; with no order loaded, or one of any other status, no
\* step of the page issues a payment request.
C15_PayOnlyCreated ==
    [][pending'["POST /payments/id"] > pending["POST /payments/id"]
         => /\ lastOp' = "Payment.handlePay"
            /\ ~pay_loading
            /\ pay_order # NoOrder
            /\ pay_order.status = "CREATED"]_vars

\* Pay Now has sent the payment of an order that was loaded as CREATED,
\* with no Refresh in flight.
C15_Witness ==
    /\ lastOp = "Payment.handlePay"
    /\ pending["POST /payments/id"] = 1
    /\ pending["Payment refresh GET /orders/id"] = 0
    /\ pay_order.status = "CREATED"
    /\ pay_paying

\* Each flag is true exactly while its submission is in flight, and at most
\* one submission of each kind is.
C16_Flags ==
    /\ pay_paying <=> (pending["POST /payments/id"]
                         + pending["Payment paid GET /orders/id"] > 0)
    /\ cart_checkingOut <=> pending["POST /orders"] > 0
    /\ pending["POST /payments/id"] + pending["Payment paid GET /orders/id"]
         <= 1
    /\ pending["POST /orders"] <= 1

\* Every ending of a submission leaves its flag false, and a submission
\* starts only from a button that was enabled, with none in flight.
C16_Ends ==
    /\ lastOp' = "Cart.checkout ends" => ~cart_checkingOut'
    /\ lastOp' = "Payment.handlePay ends" => ~pay_paying'
    /\ (lastOp' = "Payment.handlePay paid"
          /\ pending'["Payment paid GET /orders/id"] = 0) => ~pay_paying'
    /\ lastOp' \in {"Cart.checkout", "Payment.handlePay"}
          => /\ ~cart_checkingOut /\ ~pay_paying
             /\ pending["POST /orders"] = 0
             /\ pending["POST /payments/id"] = 0

\* C16: submissions are not duplicated from one page.  paying is true
\* exactly while a handlePay submission (its POST /payments/{orderId}, then
\* its refresh) is outstanding and checkingOut exactly while a POST /orders
\* is; the button is disabled while its flag is true; so at most one POST
\* of each kind is in flight; and the flag is false again after every
\* outcome.
C16_NoDuplicateSubmission == []C16_Flags /\ [][C16_Ends]_vars

\* A payment failed for a reason other than authentication: the button is
\* enabled again on the form, and nothing of the submission is in flight.
C16_Witness ==
    /\ lastOp = "Payment.handlePay paid" /\ lastArg.status = 500
    /\ PaymentFormShown
    /\ ~pay_paying
    /\ pending["POST /payments/id"] = 0

\* C17: a checkout that does not succeed leaves the cart unchanged.  When
\* checkout is turned away because no token is stored or because some item
\* has no product in the loaded catalog, it issues no POST /orders; in those
\* cases and when POST /orders fails, the steps of checkout leave items and
\* the local-storage "cart" value as they found them.
C17_FailedCheckoutKeepsCart ==
    [][/\ lastOp' = "Cart.checkout"
          => /\ UNCHANGED <<cart_items, ls_cart>>
             /\ (\/ ls_token = NoToken
                 \/ \E j \in 1..Len(cart_items) :
                      cart_items[j].product_id \notin cart_productsById)
                => UNCHANGED pending
       /\ (lastOp' = "Cart.checkout ends" /\ lastArg'.status # 200)
          => UNCHANGED <<cart_items, ls_cart>>]_vars

\* POST /orders has failed and the cart is still there, in the page and in
\* local storage.
C17_Witness ==
    /\ lastOp = "Cart.checkout ends" /\ lastArg.status = 500
    /\ cart_items # <<>>
    /\ readCart(ls_cart) = cart_items

=============================================================================
